---- MODULE Spec2Model ----
(***************************************************************************)
(* tap-amazon-sp: the sync pass of the tap (sync.py), the INCREMENTAL      *)
(* stream state machine (streams.py, IncrementalStream.sync) and the       *)
(* record sources of the streams registered in STREAMS.                    *)
(*                                                                         *)
(* A pass is one run of the process: sync(config, state, catalog).  The    *)
(* process may be run again from the state it last wrote (Restart).        *)
(***************************************************************************)
EXTENDS Integers, Sequences, FiniteSets, TLC

(***************************************************************************)
(* Bounds of the model.                                                    *)
(***************************************************************************)
MaxSelected == 2   \* streams selected in the catalog
MaxPages    == 2   \* pages the orders endpoint serves for one marketplace
MaxPageLen  == 2   \* orders on one page
MaxOrders   == 2   \* orders the remote holds, all marketplaces together
MaxPasses   == 2   \* runs of the process, each from the last state written

None == "None"

(***************************************************************************)
(* Timestamps.  A timestamp string is <<local, off>>: a local clock        *)
(* reading and its UTC offset.  strptime_to_utc gives the instant,         *)
(* isoformat renders an instant as a UTC string (offset 0).                *)
(***************************************************************************)
Dates == {<<0, 0>>, <<2, 1>>, <<2, 0>>}

strptime_to_utc(d) == d[1] - d[2]

isoformat(i) == <<i, 0>>

\* config['start_date']
StartDate == <<1, 1>>

(***************************************************************************)
(* Stream classes (streams.py).                                            *)
(***************************************************************************)
STREAMS == {"orders", "order_items", "order_buyer_info", "order_address", "sales"}

\* stream ids a catalog may select
CatalogIds == STREAMS \cup {"vendor_purchase_orders"}

\* the `parent` attribute of a stream class
parent(s) == IF s \in {"order_items", "order_buyer_info", "order_address"}
             THEN "orders" ELSE None

\* members of the Marketplaces enum used here; "XX" below is no member
Marketplaces == {"US", "GB"}

\* values of config.get('marketplaces') after strip().split(" ");
\* <<>> stands for a missing or empty setting
MarketplaceConfigs == {<<>>, <<"GB", "US">>, <<"US", "XX">>}

\* config has the key 'end_date' or not
EndDateConfigs == {"absent", "set"}

(***************************************************************************)
(* Sequences helpers.                                                      *)
(***************************************************************************)
SeqsUpTo(S, n) == UNION {[1..k -> S] : k \in 0..n}

Injective(f) == \A i, j \in DOMAIN f : f[i] = f[j] => i = j

RECURSIVE SelectSeq2(_, _)
\* [x for x in seq if x in keep]
SelectSeq2(seq, keep) ==
    IF seq = <<>> THEN <<>>
    ELSE IF Head(seq) \in keep
         THEN <<Head(seq)>> \o SelectSeq2(Tail(seq), keep)
         ELSE SelectSeq2(Tail(seq), keep)

(***************************************************************************)
(* sync.py                                                                 *)
(***************************************************************************)
priority == {"order", "order_items"}

reorder_streams(selected_streams) ==
    LET first  == SelectSeq2(selected_streams, priority)
        second == SelectSeq2(selected_streams, CatalogIds \ priority)
    IN  first \o second

(***************************************************************************)
(* Singer state: the currently-syncing marker and the bookmarks, one per   *)
(* (stream, marketplace).                                                  *)
(***************************************************************************)
NoBookmark == "NoBookmark"

BookmarkKeys == STREAMS \X Marketplaces

EmptyState == [currently_syncing |-> None,
               bookmarks |-> [k \in BookmarkKeys |-> NoBookmark]]

set_currently_syncing(st, tap_stream_id) ==
    [st EXCEPT !.currently_syncing = tap_stream_id]

\* a lookup that never finds the entry
get_bookmark_default(st, tap_stream_id, key, default) == default

get_bookmark(st, tap_stream_id, key, default) ==
    IF st.bookmarks[<<tap_stream_id, key>>] = NoBookmark
    THEN default
    ELSE st.bookmarks[<<tap_stream_id, key>>]

\* a write that checkpoints the parent stream along with the stream
write_bookmark_parent(st, tap_stream_id, key, val) ==
    IF parent(tap_stream_id) = None
    THEN [st EXCEPT !.bookmarks[<<tap_stream_id, key>>] = val]
    ELSE [st EXCEPT !.bookmarks[<<tap_stream_id, key>>] = val,
                    !.bookmarks[<<parent(tap_stream_id), key>>] = val]

\* a write that sets the bookmark of every marketplace of the stream
write_bookmark_all(st, tap_stream_id, key, val) ==
    [st EXCEPT !.bookmarks[<<tap_stream_id, "US">>] = val,
               !.bookmarks[<<tap_stream_id, "GB">>] = val]

write_bookmark(st, tap_stream_id, key, val) ==
    [st EXCEPT !.bookmarks[<<tap_stream_id, key>>] = val]

(***************************************************************************)
(* The sink: the messages written to stdout in this pass.                  *)
(***************************************************************************)
StateMsg(st) ==
    [type |-> "STATE", stream |-> None, mkt |-> None, key |-> <<0, 0>>,
     wm |-> <<0, 0>>, value |-> st]

SchemaMsg(s) ==
    [type |-> "SCHEMA", stream |-> s, mkt |-> None, key |-> <<0, 0>>,
     wm |-> <<0, 0>>, value |-> EmptyState]

\* key identifies the order (page, position) of the marketplace the record
\* was derived from; mkt is not part of the message, it names the marketplace
\* iteration that wrote it
RecordMsg(s, m, k, w) ==
    [type |-> "RECORD", stream |-> s, mkt |-> m, key |-> k,
     wm |-> w, value |-> EmptyState]

(***************************************************************************)
(* BaseStream.get_marketplaces                                             *)
(***************************************************************************)
\* a get_marketplaces that leaves out the codes it does not know
get_marketplaces_lenient(marketplaces) ==
    IF marketplaces # <<>>
    THEN [raised |-> FALSE, val |-> SelectSeq2(marketplaces, Marketplaces)]
    ELSE [raised |-> FALSE, val |-> <<"US">>]

get_marketplaces(marketplaces) ==
    IF marketplaces # <<>>
    THEN IF \E i \in DOMAIN marketplaces : marketplaces[i] \notin Marketplaces
         THEN [raised |-> TRUE, val |-> <<>>]
         ELSE [raised |-> FALSE, val |-> marketplaces]
    ELSE [raised |-> FALSE, val |-> <<"US">>]

(***************************************************************************)
(* BaseStream.get_granularity                                              *)
(***************************************************************************)
\* members of the Granularity enum used here; "XX" below is no member
Granularity == {"HOUR", "DAY"}

\* values of config.get('sales_data_granularity').upper(); "absent" stands
\* for a missing or empty setting
GranularityConfigs == {"absent", "HOUR", "XX"}

get_granularity(granularity) ==
    IF granularity # "absent"
    THEN IF granularity \in Granularity
         THEN [raised |-> FALSE, val |-> granularity]
         ELSE [raised |-> TRUE, val |-> None]
    ELSE [raised |-> FALSE, val |-> "DAY"]

(***************************************************************************)
(* Transformer.transform on the replication key: a date-time field is      *)
(* rendered in UTC.                                                        *)
(***************************************************************************)
transform(w) == isoformat(strptime_to_utc(w))

\* a filter that lets every record through
PassesFilterAll(record_value, max_value) == TRUE

\* a filter with an exclusive lower bound
PassesFilterStrict(record_value, max_value) ==
    strptime_to_utc(record_value) > strptime_to_utc(max_value)

\* the filter of IncrementalStream.sync
PassesFilter(record_value, max_record_value) ==
    strptime_to_utc(record_value) >= strptime_to_utc(max_record_value)

\* a threshold that stays at the start date whatever was emitted
NewMaxRecordValueStart(record_value) == StartDate

\* max_record_value after an emitted record
NewMaxRecordValue(record_value) == isoformat(strptime_to_utc(record_value))

(***************************************************************************)
(* helpers.py, calculate_sleep_time.  A header value is a string: a        *)
(* decimal numeral with one fractional digit (sign, integer part, tenths)  *)
(* or a text that is no numeral.  Numbers are kept in tenths; the sleep    *)
(* time is the fraction <<numerator, denominator>> of a second.            *)
(***************************************************************************)
MaxHeaderInt == 3   \* largest integer part of a header numeral

Numeral(neg, int, frac) ==
    [kind |-> "numeral", neg |-> neg, int |-> int, frac |-> frac]

\* headers without 'x-amzn-RateLimit-Limit'
AbsentHeader == [kind |-> "absent", neg |-> FALSE, int |-> 0, frac |-> 0]

\* a header value float() does not accept
TextHeader == [kind |-> "text", neg |-> FALSE, int |-> 0, frac |-> 0]

HeaderValues ==
    {AbsentHeader, TextHeader} \cup
    {Numeral(n, i, f) : n \in BOOLEAN, i \in 0..MaxHeaderInt, f \in 0..9}

\* float(s), in tenths; ValueError when s is no numeral
float(s) ==
    IF s.kind # "numeral"
    THEN [raised |-> TRUE, val |-> 0]
    ELSE [raised |-> FALSE,
          val |-> (IF s.neg THEN -1 ELSE 1) * (10 * s.int + s.frac)]

\* 1 / rate_limit_value, the rate in tenths: 10 / tenths
calculate_sleep_time(h) ==
    LET rate_limit == IF h.kind = "absent" THEN Numeral(FALSE, 100, 0) ELSE h
        parsed == float(rate_limit)
        rate_limit_value == IF parsed.raised THEN 1000 ELSE parsed.val
    IN  <<10, IF rate_limit_value = 0 THEN 1 ELSE rate_limit_value>>

VARIABLES
    config,            \* [marketplaces, end_date, sales_data_granularity]
    catalog,           \* the selected streams, in catalog order
    remote,            \* per marketplace, the pages of orders served so far
    input,             \* the state this pass was started with
    pass,              \* number of this pass
    state,             \* the state dictionary in memory
    sink,              \* messages written in this pass
    pc,                \* position of the process
    order,             \* reorder_streams(selected_streams)
    si,                \* index in order of the stream being synced
    marketplaces,      \* get_marketplaces() of the stream being synced
    mi,                \* index of the marketplace being synced
    max_record_value,  \* local of IncrementalStream.sync
    gen,               \* the get_records generator: [page, pos, paginate]
    earlier,           \* records written by earlier passes
    endpoint,          \* the wrapped remote call under study
    tries,             \* the retry loop's count of tries
    attempts,          \* outcome of each remote call of the wrapped call
    seconds,           \* the wait the retry loop computed last
    hook,              \* the waits reported to log_backoff
    slept,             \* the durations passed to time.sleep
    rpc,               \* position of the component under study
    headers,           \* rate-limit header of the last response
    sleep_time,        \* calculate_sleep_time(headers), as <<numerator, denominator>>
    window,            \* the tuples get_parent_data yields
    kpos,              \* parent tuples the child source has consumed
    calls,             \* order ids of the child's remote calls that returned
    yielded,           \* records the child source yielded
    chain,             \* the pages the remote serves, by page token
    mode,              \* how get_records of the paged source was called
    next_token,        \* local of get_records
    paginate,          \* local of get_records
    response           \* local of get_records: the page fetched last

\* the variables of the sync pass
mvars == <<config, catalog, remote, input, pass, state, sink, pc, order, si,
           marketplaces, mi, max_record_value, gen, earlier>>

\* the variables of the retry wrapper
rvars == <<tries, attempts, seconds, hook>>

\* the variables of the rate limiter and of the child record sources
cvars == <<headers, sleep_time, window, kpos, calls, yielded>>

\* the variables of the paged record sources
pvars == <<chain, mode, next_token, paginate, response>>

\* the variables of the component studies
svars == <<endpoint, slept, rpc, rvars, cvars, pvars>>

vars == <<mvars, svars>>

\* no wrapped call is under way
NoRetry ==
    /\ tries = 0
    /\ attempts = <<>>
    /\ seconds = 0
    /\ hook = <<>>

\* no child record source is running
NoChild ==
    /\ headers = AbsentHeader
    /\ sleep_time = <<0, 1>>
    /\ window = <<>>
    /\ kpos = 0
    /\ calls = <<>>
    /\ yielded = <<>>

\* the value of next_token that names no page
NoToken == <<>>

\* no page has been fetched
NoResponse == [len |-> 0, next_token |-> NoToken]

\* no paged record source is running
NoPaged ==
    /\ chain = <<>>
    /\ mode = None
    /\ next_token = NoToken
    /\ paginate = FALSE
    /\ response = NoResponse

\* no component is under study: the sync pass runs with the components folded
\* into its steps
NoStudy ==
    /\ endpoint = None
    /\ slept = <<>>
    /\ rpc = "idle"
    /\ NoRetry
    /\ NoChild
    /\ NoPaged

NoGen == [page |-> 0, pos |-> 0, paginate |-> FALSE]

Page == [recs : SeqsUpTo(Dates, MaxPageLen), more : BOOLEAN]

\* an order without the field LastUpdateDate
Missing == <<>>

\* pages whose orders may lack LastUpdateDate
RawPage == [recs : SeqsUpTo(Dates \cup {Missing}, MaxPageLen), more : BOOLEAN]

Init ==
    /\ config \in [marketplaces : MarketplaceConfigs, end_date : EndDateConfigs,
                   sales_data_granularity : {"HOUR"}]
    /\ catalog \in {s \in SeqsUpTo(CatalogIds, MaxSelected) : Injective(s)}
    /\ remote = [m \in Marketplaces |-> <<>>]
    /\ input = EmptyState
    /\ pass = 1
    /\ state = EmptyState
    /\ sink = <<>>
    /\ pc = "start"
    /\ order = <<>>
    /\ si = 0
    /\ marketplaces = <<>>
    /\ mi = 0
    /\ max_record_value = None
    /\ gen = NoGen
    /\ earlier = {}
    /\ NoStudy

tap_stream_id == order[si]

marketplace == marketplaces[mi]

Stopped == pc \in {"done", "lookup_error", "raised", "killed"}

write(msgs) == sink' = sink \o msgs

\* the process ends as below, after writing a state with the marker cleared
HaltClearsMarker(how) ==
    /\ pc' = how
    /\ state' = EmptyState
    /\ sink' = Append(sink, StateMsg(set_currently_syncing(state, None)))
    /\ marketplaces' = <<>>
    /\ mi' = 0
    /\ max_record_value' = None
    /\ gen' = NoGen
    /\ order' = IF how = "killed" THEN <<>> ELSE order
    /\ si' = IF how = "killed" THEN 0 ELSE si
    /\ UNCHANGED <<config, catalog, remote, input, pass, earlier, svars>>

\* the process ends without finishing the pass: its memory is gone, what it
\* wrote stays
Halt(how) ==
    /\ pc' = how
    /\ state' = EmptyState
    /\ marketplaces' = <<>>
    /\ mi' = 0
    /\ max_record_value' = None
    /\ gen' = NoGen
    /\ order' = IF how = "killed" THEN <<>> ELSE order
    /\ si' = IF how = "killed" THEN 0 ELSE si
    /\ UNCHANGED <<config, catalog, remote, input, pass, sink, earlier, svars>>

\* the last state written in this pass; the input state when none was written
RECURSIVE LastState(_, _)
LastState(msgs, default) ==
    IF msgs = <<>> THEN default
    ELSE IF msgs[Len(msgs)].type = "STATE" THEN msgs[Len(msgs)].value
         ELSE LastState(SubSeq(msgs, 1, Len(msgs) - 1), default)

Persisted == LastState(sink, input)

RecordsOf(msgs) == {msgs[i] : i \in {j \in DOMAIN msgs : msgs[j].type = "RECORD"}}

\* sync.py 24-25: the selected streams are reordered
Reorder ==
    /\ pc = "start"
    /\ order' = reorder_streams(catalog)
    /\ si' = 1
    /\ pc' = "loop"
    /\ UNCHANGED <<config, catalog, remote, input, pass, state, sink,
                   marketplaces, mi, max_record_value, gen, earlier, svars>>

\* the stream is started without its schema being written
BeginStreamNoSchema ==
    /\ pc = "loop"
    /\ si <= Len(order)
    /\ IF tap_stream_id \notin STREAMS
       THEN Halt("lookup_error")
       ELSE /\ state' = set_currently_syncing(state, tap_stream_id)
            /\ write(<<StateMsg(state')>>)
            /\ pc' = "sync"
            /\ UNCHANGED <<config, catalog, remote, input, pass, order, si,
                           marketplaces, mi, max_record_value, gen, earlier, svars>>

\* sync.py 26-41: the stream class is looked up, the currently-syncing state
\* and the schema are written
BeginStream ==
    /\ pc = "loop"
    /\ si <= Len(order)
    /\ IF tap_stream_id \notin STREAMS
       THEN Halt("lookup_error")
       ELSE /\ state' = set_currently_syncing(state, tap_stream_id)
            /\ write(<<StateMsg(state'), SchemaMsg(tap_stream_id)>>)
            /\ pc' = "sync"
            /\ UNCHANGED <<config, catalog, remote, input, pass, order, si,
                           marketplaces, mi, max_record_value, gen, earlier, svars>>

\* streams.py 161: IncrementalStream.sync starts with get_marketplaces
SyncStart ==
    /\ pc = "sync"
    /\ LET r == get_marketplaces(config.marketplaces)
       IN  IF r.raised
           THEN Halt("raised")
           ELSE /\ marketplaces' = r.val
                /\ mi' = 1
                /\ pc' = "marketplace"
                /\ UNCHANGED <<config, catalog, remote, input, pass, state, sink,
                               order, si, max_record_value, gen, earlier, svars>>

\* streams.py 163-172: the bookmark is loaded, config['end_date'] is read and
\* the record generator is created
BeginMarketplace ==
    /\ pc = "marketplace"
    /\ mi <= Len(marketplaces)
    /\ IF config.end_date = "absent"
       THEN Halt("raised")
       ELSE /\ max_record_value' =
                   get_bookmark(state, tap_stream_id, marketplace, StartDate)
            /\ gen' = [page |-> 0, pos |-> 0, paginate |-> TRUE]
            /\ pc' = "records"
            /\ UNCHANGED <<config, catalog, remote, input, pass, state, sink,
                           order, si, marketplaces, mi, earlier, svars>>

\* streams.py 185 and sync.py 43-44: sync returns, the state is written
EndStream ==
    /\ pc = "marketplace"
    /\ mi > Len(marketplaces)
    /\ write(<<StateMsg(state)>>)
    /\ si' = si + 1
    /\ marketplaces' = <<>>
    /\ mi' = 0
    /\ pc' = "loop"
    /\ UNCHANGED <<config, catalog, remote, input, pass, state, order,
                   max_record_value, gen, earlier, svars>>

\* the final state is written with the marker left in place
FinishKeepsMarker ==
    /\ pc = "loop"
    /\ si > Len(order)
    /\ write(<<StateMsg(state)>>)
    /\ pc' = "done"
    /\ UNCHANGED <<config, catalog, remote, input, pass, state, order, si,
                   marketplaces, mi, max_record_value, gen, earlier, svars>>

\* sync.py 46-47
Finish ==
    /\ pc = "loop"
    /\ si > Len(order)
    /\ state' = set_currently_syncing(state, None)
    /\ write(<<StateMsg(state')>>)
    /\ pc' = "done"
    /\ UNCHANGED <<config, catalog, remote, input, pass, order, si,
                   marketplaces, mi, max_record_value, gen, earlier, svars>>

(***************************************************************************)
(* Record sources.  OrdersStream.get_records pages through the orders of   *)
(* the marketplace; the child streams run it in parent mode and make one   *)
(* call per order.                                                         *)
(***************************************************************************)
PagedStreams == {"orders", "order_items", "order_buyer_info", "order_address"}

NumOrders == LET RECURSIVE Count(_, _)
                 Count(pages, i) == IF i > Len(pages) THEN 0
                                    ELSE Len(pages[i].recs) + Count(pages, i + 1)
             IN  Count(remote["US"], 1) + Count(remote["GB"], 1)

\* the records of the page the generator holds
CurrentRecs == IF gen.page = 0 THEN <<>> ELSE remote[marketplace][gen.page].recs

\* the while loop is about to call get_orders
AtFetch ==
    /\ pc = "records"
    /\ tap_stream_id \in PagedStreams
    /\ gen.pos = Len(CurrentRecs)
    /\ gen.paginate

\* streams.py 503-507: one page is fetched; next_token decides paginate.
\* pages is what the remote may serve
Fetch(pages) ==
    /\ AtFetch
    /\ LET n == gen.page + 1
       IN  /\ IF n <= Len(remote[marketplace])
              THEN UNCHANGED remote
              ELSE \E p \in pages :
                      /\ n <= MaxPages
                      /\ p.more => n < MaxPages
                      /\ p.recs = <<>> => n = 1 /\ ~p.more
                      /\ NumOrders + Len(p.recs) <= MaxOrders
                      /\ remote' = [remote EXCEPT ![marketplace] = Append(@, p)]
           /\ gen' = [page |-> n, pos |-> 0,
                      paginate |-> remote'[marketplace][n].more]
    /\ UNCHANGED <<config, catalog, input, pass, state, sink, pc, order, si,
                   marketplaces, mi, max_record_value, earlier, svars>>

\* the remote serves orders that have their LastUpdateDate
FetchPage == Fetch(Page)

\* the remote serves orders of which some lack LastUpdateDate
FetchPageRaw == Fetch(RawPage)

\* the generator holds a parent tuple or an order to yield
AtRecord ==
    /\ pc = "records"
    /\ tap_stream_id \in PagedStreams
    /\ gen.pos < Len(CurrentRecs)

\* a generator that yields the orders of a page last to first
NextIndexBackward == Len(CurrentRecs) - gen.pos

\* streams.py 509-514: yield from the orders of the page, first to last
NextIndex == gen.pos + 1

\* streams.py 172-178: the next record is pulled, transformed and, when it
\* passes the filter, written.  For order_buyer_info and order_address the
\* record is the response of one call, stamped with the parent's date.
\* An order without LastUpdateDate raises KeyError: at
\* transformed_record[self.replication_key] (174) for orders, at
\* item['LastUpdateDate'] (510) in parent mode
NextRecord ==
    /\ AtRecord
    /\ tap_stream_id \in {"orders", "order_buyer_info", "order_address"}
    /\ IF CurrentRecs[NextIndex] = Missing
       THEN Halt("raised")
       ELSE /\ LET k == <<gen.page, NextIndex>>
                   transformed == transform(CurrentRecs[NextIndex])
               IN  IF PassesFilter(transformed, max_record_value)
                   THEN /\ write(<<RecordMsg(tap_stream_id, marketplace, k,
                                             transformed)>>)
                        /\ max_record_value' = NewMaxRecordValue(transformed)
                        /\ pc' = "checkpoint"
                   ELSE UNCHANGED <<sink, max_record_value, pc>>
            /\ gen' = [gen EXCEPT !.pos = @ + 1]
            /\ UNCHANGED <<config, catalog, remote, input, pass, state, order,
                           si, marketplaces, mi, earlier, svars>>

\* the bookmark is kept in memory and written with a later record
CheckpointBatched ==
    /\ pc = "checkpoint"
    /\ state' = write_bookmark(state, tap_stream_id, marketplace, max_record_value)
    /\ pc' = "records"
    /\ UNCHANGED <<config, catalog, remote, input, pass, sink, order, si,
                   marketplaces, mi, max_record_value, gen, earlier, svars>>

\* streams.py 180-181
Checkpoint ==
    /\ pc = "checkpoint"
    /\ state' = write_bookmark(state, tap_stream_id, marketplace, max_record_value)
    /\ write(<<StateMsg(state')>>)
    /\ pc' = "records"
    /\ UNCHANGED <<config, catalog, remote, input, pass, order, si,
                   marketplaces, mi, max_record_value, gen, earlier, svars>>

\* streams.py 548-556: OrderItems.get_records calls flatten_order_items with
\* two arguments; helpers.py 55 takes one
OrderItemsRecord ==
    /\ AtRecord
    /\ tap_stream_id = "order_items"
    /\ Halt("raised")

\* streams.py 172 and 671-682: the first pull of SalesStream.get_records.
\* get_granularity raises for an invalid setting.  Otherwise the Sales client
\* is built: get_records(start_date, marketplace, is_parent) is called with
\* (start_date, end_date, marketplace), so it is built for the end date, which
\* is no marketplace, and that raises.  No call of get_sales_data is reached
SalesRecords ==
    /\ pc = "records"
    /\ tap_stream_id = "sales"
    /\ IF get_granularity(config.sales_data_granularity).raised
       THEN Halt("raised")
       ELSE Halt("raised")

\* a remote call raises: throttled on every try, or another error
RemoteError ==
    /\ \/ AtFetch
       \/ AtRecord /\ tap_stream_id # "orders"
    /\ Halt("raised")

\* an end of the marketplace that writes the state without the bookmark
EndMarketplaceNoBookmark ==
    /\ pc = "records"
    /\ tap_stream_id \in PagedStreams
    /\ gen.pos = Len(CurrentRecs)
    /\ ~gen.paginate
    /\ write(<<StateMsg(state)>>)
    /\ mi' = mi + 1
    /\ max_record_value' = None
    /\ gen' = NoGen
    /\ pc' = "marketplace"
    /\ UNCHANGED <<config, catalog, remote, input, pass, state, order, si,
                   marketplaces, earlier, svars>>

\* streams.py 183-184: the generator is exhausted; the final bookmark of the
\* marketplace is written
EndMarketplace ==
    /\ pc = "records"
    /\ tap_stream_id \in PagedStreams
    /\ gen.pos = Len(CurrentRecs)
    /\ ~gen.paginate
    /\ state' = write_bookmark(state, tap_stream_id, marketplace, max_record_value)
    /\ write(<<StateMsg(state')>>)
    /\ mi' = mi + 1
    /\ max_record_value' = None
    /\ gen' = NoGen
    /\ pc' = "marketplace"
    /\ UNCHANGED <<config, catalog, remote, input, pass, order, si,
                   marketplaces, earlier, svars>>

\* the process is interrupted
Kill ==
    /\ ~Stopped
    /\ Halt("killed")

\* the tap is run again with the state it last wrote
Restart ==
    /\ Stopped
    /\ pass < MaxPasses
    /\ pass' = pass + 1
    /\ input' = Persisted
    /\ state' = Persisted
    /\ earlier' = earlier \cup RecordsOf(sink)
    /\ sink' = <<>>
    /\ pc' = "start"
    /\ order' = <<>>
    /\ si' = 0
    /\ marketplaces' = <<>>
    /\ mi' = 0
    /\ max_record_value' = None
    /\ gen' = NoGen
    /\ UNCHANGED <<config, catalog, remote, svars>>

Next ==
    \/ Reorder
    \/ BeginStream
    \/ SyncStart
    \/ BeginMarketplace
    \/ FetchPage
    \/ NextRecord
    \/ Checkpoint
    \/ OrderItemsRecord
    \/ SalesRecords
    \/ RemoteError
    \/ EndMarketplace
    \/ EndStream
    \/ Finish
    \/ Kill
    \/ Restart

Spec == Init /\ [][Next]_vars

(***************************************************************************)
(* The retry wrapper.  Every remote call is wrapped in                     *)
(* backoff.on_exception(backoff.expo, SellingApiRequestThrottledException, *)
(* max_tries, base, factor, on_backoff=log_backoff): the call is tried     *)
(* again after a throttling error, until max_tries tries were made.  Each  *)
(* wait is full_jitter of the next expo value.  In Spec the wrapped call   *)
(* is folded into FetchPage, NextRecord (it returns) and RemoteError (it   *)
(* raises).                                                                *)
(***************************************************************************)
Wrapped == {"get_orders", "get_order_items", "get_order_buyer_info",
            "get_order_address", "get_vendor_purchase_orders", "get_sales_data"}

\* what one remote call does: it returns, it raises
\* SellingApiRequestThrottledException, it raises something else
Outcomes == {"ok", "throttled", "error"}

\* a wrapper that tries every call five times
max_tries_five(f) == 5

max_tries(f) == IF f = "get_sales_data" THEN 3 ELSE 5

base(f) == IF f = "get_sales_data" THEN 2 ELSE 3

factor(f) == IF f = "get_sales_data" THEN 1
             ELSE IF f = "get_orders" THEN 20 ELSE 10

\* the n-th value of backoff.expo, n = 0, 1, ...
expo(f, n) == factor(f) * base(f) ^ n

\* random.uniform(0, value): the values it may return
full_jitter(value) == {0, value \div 2, value}

\* a wrapper that catches every exception
CaughtAny(outcome) == outcome # "ok"

\* the exception class the decorator names
Caught(outcome) == outcome = "throttled"

\* the sync pass is not running
Parked ==
    /\ config = [marketplaces |-> <<>>, end_date |-> "set",
                 sales_data_granularity |-> "HOUR"]
    /\ catalog = <<>>
    /\ remote = [m \in Marketplaces |-> <<>>]
    /\ input = EmptyState
    /\ pass = 1
    /\ state = EmptyState
    /\ sink = <<>>
    /\ pc = "parked"
    /\ order = <<>>
    /\ si = 0
    /\ marketplaces = <<>>
    /\ mi = 0
    /\ max_record_value = None
    /\ gen = NoGen
    /\ earlier = {}

InitRetry ==
    /\ Parked
    /\ NoPaged
    /\ endpoint \in Wrapped
    /\ tries = 0
    /\ attempts = <<>>
    /\ seconds = 0
    /\ hook = <<>>
    /\ slept = <<>>
    /\ rpc = "call"
    /\ NoChild

\* one try: the target is called; its result is returned, an exception the
\* decorator does not name propagates, a named one is caught and, when
\* max_tries tries were made, raised again
RetryCall ==
    /\ rpc = "call"
    /\ tries' = tries + 1
    /\ \E outcome \in Outcomes :
          /\ attempts' = Append(attempts, outcome)
          /\ rpc' = IF outcome = "ok" THEN "returned"
                    ELSE IF ~Caught(outcome) THEN "raised"
                    ELSE IF tries' = max_tries(endpoint) THEN "raised"
                    ELSE "caught"
    /\ UNCHANGED <<mvars, pvars, cvars, endpoint, seconds, hook, slept>>

\* the wait is computed and the tries go on without telling on_backoff
OnBackoffSilent ==
    /\ rpc = "caught"
    /\ \E s \in full_jitter(expo(endpoint, tries - 1)) : seconds' = s
    /\ rpc' = "sleep"
    /\ UNCHANGED <<mvars, pvars, cvars, endpoint, tries, attempts, hook, slept>>

\* the wait is computed and log_backoff is called with it
OnBackoff ==
    /\ rpc = "caught"
    /\ \E s \in full_jitter(expo(endpoint, tries - 1)) : seconds' = s
    /\ hook' = Append(hook, seconds')
    /\ rpc' = "sleep"
    /\ UNCHANGED <<mvars, pvars, cvars, endpoint, tries, attempts, slept>>

\* time.sleep(seconds), then the next try
Sleep ==
    /\ rpc = "sleep"
    /\ slept' = Append(slept, seconds)
    /\ rpc' = "call"
    /\ UNCHANGED <<mvars, pvars, cvars, endpoint, tries, attempts, seconds, hook>>

\* the caller (get_records) goes on with the result
CallerResumes ==
    /\ rpc = "returned"
    /\ rpc' = "resumed"
    /\ UNCHANGED <<mvars, pvars, cvars, endpoint, tries, attempts, seconds, hook, slept>>

\* nothing between the wrapped call and main catches the exception
CallerAborts ==
    /\ rpc = "raised"
    /\ rpc' = "aborted"
    /\ UNCHANGED <<mvars, pvars, cvars, endpoint, tries, attempts, seconds, hook, slept>>

NextRetry ==
    \/ RetryCall
    \/ OnBackoff
    \/ Sleep
    \/ CallerResumes
    \/ CallerAborts

SpecRetry == InitRetry /\ [][NextRetry]_vars

(***************************************************************************)
(* The rate limiter on its own: calculate_sleep_time applied to the        *)
(* headers of a response.                                                  *)
(***************************************************************************)
InitSleep ==
    /\ Parked
    /\ NoPaged
    /\ NoRetry
    /\ endpoint = None
    /\ slept = <<>>
    /\ rpc = "headers"
    /\ headers \in HeaderValues
    /\ sleep_time = <<0, 1>>
    /\ window = <<>>
    /\ kpos = 0
    /\ calls = <<>>
    /\ yielded = <<>>

\* helpers.py 16-33
CalculateSleepTime ==
    /\ rpc = "headers"
    /\ sleep_time' = calculate_sleep_time(headers)
    /\ rpc' = "sleep_time"
    /\ UNCHANGED <<mvars, pvars, rvars, endpoint, slept, headers, window, kpos,
                   calls, yielded>>

NextSleep == CalculateSleepTime

SpecSleep == InitSleep /\ [][NextSleep]_vars


(***************************************************************************)
(* The child record sources on their own: OrderItems, OrderBuyerInfo and   *)
(* OrderAddress.get_records over the tuples (AmazonOrderId,                *)
(* LastUpdateDate) that get_parent_data yields.  The wrapped call returns  *)
(* or raises (SpecRetry); here it is one step.                             *)
(***************************************************************************)
MaxWindow == 2   \* parent tuples in one window

OrderIds == {"A", "B"}

ParentTuples == OrderIds \X Dates

ChildCalls == {"get_order_items", "get_order_buyer_info", "get_order_address"}

\* rate-limit headers of a child response: none, '0.5', '-1.0'
ChildHeaders == {AbsentHeader, Numeral(FALSE, 0, 5), Numeral(TRUE, 1, 0)}

\* the response of the call for order_id, stamped with the parent's date
Stamped(order_id, date) ==
    [AmazonOrderId |-> order_id, OrderLastUpdateDate |-> date]

InitChild ==
    /\ Parked
    /\ NoPaged
    /\ NoRetry
    /\ endpoint \in ChildCalls
    /\ slept = <<>>
    /\ rpc = "next"
    /\ headers = AbsentHeader
    /\ sleep_time = <<0, 1>>
    /\ window \in SeqsUpTo(ParentTuples, MaxWindow)
    /\ kpos = 0
    /\ calls = <<>>
    /\ yielded = <<>>

\* the wrapped call for the next parent tuple raises
ChildCallRaises ==
    /\ rpc = "next"
    /\ kpos < Len(window)
    /\ rpc' = "raised_remote"
    /\ UNCHANGED <<mvars, pvars, rvars, cvars, endpoint, slept>>

\* streams.py 548-558 and 591-602: one turn of the loop over the parent
\* tuples with a call that returns.  time.sleep raises ValueError for a
\* negative length; flatten_order_items takes one argument and is called
\* with two (TypeError)
ChildRecord ==
    /\ rpc = "next"
    /\ kpos < Len(window)
    /\ LET order_id == window[kpos + 1][1]
           date     == window[kpos + 1][2]
       IN  \E h \in ChildHeaders :
              /\ headers' = h
              /\ calls' = Append(calls, order_id)
              /\ sleep_time' = calculate_sleep_time(h)
              /\ IF sleep_time'[1] * sleep_time'[2] < 0
                 THEN /\ rpc' = "raised_sleep"
                      /\ UNCHANGED <<slept, yielded, kpos>>
                 ELSE /\ slept' = Append(slept, sleep_time')
                      /\ IF endpoint = "get_order_items"
                         THEN /\ rpc' = "raised_flatten"
                              /\ UNCHANGED <<yielded, kpos>>
                         ELSE /\ yielded' = Append(yielded, Stamped(order_id, date))
                              /\ kpos' = kpos + 1
                              /\ rpc' = "next"
    /\ UNCHANGED <<mvars, pvars, rvars, endpoint, window>>

\* the parent generator is exhausted
ChildDone ==
    /\ rpc = "next"
    /\ kpos = Len(window)
    /\ rpc' = "done"
    /\ UNCHANGED <<mvars, pvars, rvars, cvars, endpoint, slept>>

NextChild ==
    \/ ChildCallRaises
    \/ ChildRecord
    \/ ChildDone

SpecChild == InitChild /\ [][NextChild]_vars


(***************************************************************************)
(* FullTableStream.sync (streams.py 197-217) on its own, for the classes   *)
(* of FULL_TABLE_STREAMS.  sync.py never builds these classes; the method  *)
(* is studied as it would run when called with a state.  It uses the       *)
(* variables of the sync pass: order is the one stream, input the state    *)
(* passed in, state the dictionary it returns.                             *)
(***************************************************************************)
FULL_TABLE_STREAMS == {"orders", "order_items", "order_buyer_info",
                       "order_address", "vendor_purchase_orders"}

\* the states passed in: empty, or with a bookmark of an earlier incremental run
FullTableInputs ==
    {EmptyState, write_bookmark(EmptyState, "orders", "US", isoformat(1))}

InitFullTable ==
    /\ NoStudy
    /\ config \in [marketplaces : MarketplaceConfigs, end_date : EndDateConfigs,
                   sales_data_granularity : {"HOUR"}]
    /\ catalog = <<>>
    /\ remote = [m \in Marketplaces |-> <<>>]
    /\ input \in FullTableInputs
    /\ state = input
    /\ pass = 1
    /\ sink = <<>>
    /\ pc = "ft_sync"
    /\ order \in {<<s>> : s \in FULL_TABLE_STREAMS}
    /\ si = 1
    /\ marketplaces = <<>>
    /\ mi = 0
    /\ max_record_value = None
    /\ gen = NoGen
    /\ earlier = {}

\* an exception leaves FullTableStream.sync
FullTableRaise ==
    /\ pc' = "ft_raised"
    /\ marketplaces' = <<>>
    /\ mi' = 0
    /\ gen' = NoGen
    /\ UNCHANGED <<config, catalog, remote, input, pass, state, sink, order, si,
                   max_record_value, earlier, svars>>

\* streams.py 207
FullTableStart ==
    /\ pc = "ft_sync"
    /\ LET r == get_marketplaces(config.marketplaces)
       IN  IF r.raised
           THEN FullTableRaise
           ELSE /\ marketplaces' = r.val
                /\ mi' = 1
                /\ pc' = "ft_marketplace"
                /\ UNCHANGED <<config, catalog, remote, input, pass, state, sink,
                               order, si, max_record_value, gen, earlier, svars>>

\* streams.py 208-212: config['end_date'] is read, the generator is created
FullTableMarketplace ==
    /\ pc = "ft_marketplace"
    /\ mi <= Len(marketplaces)
    /\ IF config.end_date = "absent"
       THEN FullTableRaise
       ELSE /\ gen' = [page |-> 0, pos |-> 0, paginate |-> TRUE]
            /\ pc' = "ft_records"
            /\ UNCHANGED <<config, catalog, remote, input, pass, state, sink,
                           order, si, marketplaces, mi, max_record_value,
                           earlier, svars>>

FullTableAtFetch ==
    /\ pc = "ft_records"
    /\ gen.pos = Len(CurrentRecs)
    /\ gen.paginate

\* streams.py 262-266, 447-451: one page is fetched (by the stream itself, or
\* by its parent in parent mode)
FullTableFetchPage ==
    /\ FullTableAtFetch
    /\ LET n == gen.page + 1
       IN  /\ \E p \in Page :
                 /\ n <= MaxPages
                 /\ p.more => n < MaxPages
                 /\ p.recs = <<>> => n = 1 /\ ~p.more
                 /\ NumOrders + Len(p.recs) <= MaxOrders
                 /\ remote' = [remote EXCEPT ![marketplace] = Append(@, p)]
           /\ gen' = [page |-> n, pos |-> 0,
                      paginate |-> remote'[marketplace][n].more]
    /\ UNCHANGED <<config, catalog, input, pass, state, sink, pc, order, si,
                   marketplaces, mi, max_record_value, earlier, svars>>

FullTableAtRecord ==
    /\ pc = "ft_records"
    /\ gen.pos < Len(CurrentRecs)

\* a sync that writes only the records above the start date
FullTableRecordFiltered ==
    /\ FullTableAtRecord
    /\ IF tap_stream_id = "order_items"
       THEN FullTableRaise
       ELSE LET k == <<gen.page, gen.pos + 1>>
                transformed == transform(CurrentRecs[gen.pos + 1])
            IN  /\ IF PassesFilterStrict(transformed, StartDate)
                   THEN write(<<RecordMsg(tap_stream_id, marketplace, k,
                                          transformed)>>)
                   ELSE UNCHANGED sink
                /\ gen' = [gen EXCEPT !.pos = @ + 1]
                /\ UNCHANGED <<config, catalog, remote, input, pass, state, pc,
                               order, si, marketplaces, mi, max_record_value,
                               earlier, svars>>

\* a sync that writes a bookmark and the state with every record
FullTableRecordCheckpoints ==
    /\ FullTableAtRecord
    /\ IF tap_stream_id \notin STREAMS \ {"order_items"}
       THEN FullTableRaise
       ELSE LET k == <<gen.page, gen.pos + 1>>
                transformed == transform(CurrentRecs[gen.pos + 1])
            IN  /\ state' = write_bookmark(state, tap_stream_id, marketplace,
                                           transformed)
                /\ write(<<RecordMsg(tap_stream_id, marketplace, k, transformed),
                           StateMsg(state')>>)
                /\ gen' = [gen EXCEPT !.pos = @ + 1]
                /\ UNCHANGED <<config, catalog, remote, input, pass, pc, order,
                               si, marketplaces, mi, max_record_value, earlier,
                               svars>>

\* streams.py 212-215: the next record is pulled, transformed and written;
\* the state is not touched.  OrderItemsFullTable.get_records raises at its
\* first parent tuple (flatten_order_items called with two arguments)
FullTableRecord ==
    /\ FullTableAtRecord
    /\ IF tap_stream_id = "order_items"
       THEN FullTableRaise
       ELSE LET k == <<gen.page, gen.pos + 1>>
                transformed == transform(CurrentRecs[gen.pos + 1])
            IN  /\ write(<<RecordMsg(tap_stream_id, marketplace, k,
                                     transformed)>>)
                /\ gen' = [gen EXCEPT !.pos = @ + 1]
                /\ UNCHANGED <<config, catalog, remote, input, pass, state, pc,
                               order, si, marketplaces, mi, max_record_value,
                               earlier, svars>>

\* a remote call raises (a page fetch, or the call of a child for a tuple),
\* or time.sleep does for a negative sleep time
FullTableRemoteError ==
    /\ \/ FullTableAtFetch
       \/ FullTableAtRecord /\ parent(tap_stream_id) # None
    /\ FullTableRaise

\* the generator is exhausted: next marketplace
FullTableEndMarketplace ==
    /\ pc = "ft_records"
    /\ gen.pos = Len(CurrentRecs)
    /\ ~gen.paginate
    /\ mi' = mi + 1
    /\ gen' = NoGen
    /\ pc' = "ft_marketplace"
    /\ UNCHANGED <<config, catalog, remote, input, pass, state, sink, order, si,
                   marketplaces, max_record_value, earlier, svars>>

\* streams.py 216-217: the state is written and returned
FullTableReturn ==
    /\ pc = "ft_marketplace"
    /\ mi > Len(marketplaces)
    /\ write(<<StateMsg(state)>>)
    /\ pc' = "ft_done"
    /\ UNCHANGED <<config, catalog, remote, input, pass, state, order, si,
                   marketplaces, mi, max_record_value, gen, earlier, svars>>

NextFullTable ==
    \/ FullTableStart
    \/ FullTableMarketplace
    \/ FullTableFetchPage
    \/ FullTableRecord
    \/ FullTableRemoteError
    \/ FullTableEndMarketplace
    \/ FullTableReturn

SpecFullTable == InitFullTable /\ [][NextFullTable]_vars


(***************************************************************************)
(* Stream setup: one pass over a catalog of one stream, with every         *)
(* configuration of the marketplaces and of the sales granularity.         *)
(***************************************************************************)
\* the marketplace settings of Spec, and settings whose first code is invalid
SetupMarketplaceConfigs == MarketplaceConfigs \cup {<<"XX", "US">>, <<"XX">>}

InitSetup ==
    /\ NoStudy
    /\ config \in [marketplaces : SetupMarketplaceConfigs,
                   end_date : EndDateConfigs,
                   sales_data_granularity : GranularityConfigs]
    /\ catalog \in {<<s>> : s \in STREAMS}
    /\ remote = [m \in Marketplaces |-> <<>>]
    /\ input = EmptyState
    /\ pass = 1
    /\ state = EmptyState
    /\ sink = <<>>
    /\ pc = "start"
    /\ order = <<>>
    /\ si = 0
    /\ marketplaces = <<>>
    /\ mi = 0
    /\ max_record_value = None
    /\ gen = NoGen
    /\ earlier = {}

\* the steps of one pass that is not interrupted
NextSetup ==
    \/ Reorder
    \/ BeginStream
    \/ SyncStart
    \/ BeginMarketplace
    \/ FetchPage
    \/ NextRecord
    \/ Checkpoint
    \/ OrderItemsRecord
    \/ SalesRecords
    \/ RemoteError
    \/ EndMarketplace
    \/ EndStream
    \/ Finish

SpecSetup == InitSetup /\ [][NextSetup]_vars


(***************************************************************************)
(* One pass over a catalog of one stream, with a remote whose orders may   *)
(* lack the field LastUpdateDate.                                          *)
(***************************************************************************)
NextRaw ==
    \/ Reorder
    \/ BeginStream
    \/ SyncStart
    \/ BeginMarketplace
    \/ FetchPageRaw
    \/ NextRecord
    \/ Checkpoint
    \/ OrderItemsRecord
    \/ SalesRecords
    \/ RemoteError
    \/ EndMarketplace
    \/ EndStream
    \/ Finish

SpecRaw == InitSetup /\ [][NextRaw]_vars


(***************************************************************************)
(* The paged record sources: get_records of OrdersStream, of               *)
(* VendorPurchaseOrders and of SalesStream, pulled to the end by a caller. *)
(* The remote serves a finite chain of pages: the page for no token is the *)
(* first one, and each page names the next one or none.                    *)
(***************************************************************************)
MaxTokens == 2

MaxThrottles == 5

Tokens == {<<i>> : i \in 1..MaxTokens}

PageTokens == Tokens \cup {NoToken}

\* the wrapped calls the paged sources make
PagedCalls == {"get_orders", "get_vendor_purchase_orders", "get_sales_data"}

\* how get_records is called: by a sync with (start_date, end_date,
\* marketplace), by get_parent_data with is_parent=True, or with the
\* parameters of its own signature
Modes(f) == IF f = "get_orders" THEN {"sync", "parent"}
            ELSE IF f = "get_sales_data" THEN {"sync", "own"}
            ELSE {"sync"}

\* the tokens of the pages served when the chain c is followed from token t
RECURSIVE Served(_, _, _)
Served(c, t, n) ==
    IF c[t].next_token = NoToken \/ n = 0 THEN {t}
    ELSE {t} \cup Served(c, c[t].next_token, n - 1)

\* following c from the first page ends at a page that names no next page
RECURSIVE Ends(_, _, _)
Ends(c, t, n) ==
    IF c[t].next_token = NoToken THEN TRUE
    ELSE IF n = 0 THEN FALSE
    ELSE Ends(c, c[t].next_token, n - 1)

\* the finite chains; the pages that are never served are left empty
Chains ==
    {c \in [PageTokens -> [len : 0..MaxPageLen, next_token : PageTokens]] :
        /\ Ends(c, NoToken, MaxTokens)
        /\ \A t \in PageTokens \ Served(c, NoToken, MaxTokens) :
               c[t] = NoResponse}

\* the logs of the study keep the first entries only
MaxLog == (MaxTokens + 1) * (MaxPageLen + 1)

Log(log, x) == IF Len(log) < MaxLog THEN Append(log, x) ELSE log

InitPaged ==
    /\ Parked
    /\ NoChild
    /\ endpoint \in PagedCalls
    /\ mode \in Modes(endpoint)
    /\ chain \in Chains
    /\ next_token = NoToken
    /\ paginate = FALSE
    /\ response = NoResponse
    /\ tries = 0
    /\ attempts = <<>>
    /\ seconds = 0
    /\ hook = <<>>
    /\ slept = <<>>
    /\ rpc = "idle"

\* a source that asks for the first page in every call
TokenPassedNone == NoToken

\* the page token the call of the loop passes to the remote
TokenPassed == IF endpoint = "get_sales_data" THEN NoToken ELSE next_token

\* the first pull runs get_records down to the while loop. The sync passes
\* (start_date, end_date, marketplace); SalesStream.get_records takes
\* (start_date, marketplace, is_parent), so there marketplace is the end date
\* and Sales(credentials, marketplace) raises
PagedStart ==
    /\ rpc = "idle"
    /\ IF endpoint = "get_sales_data" /\ mode = "sync"
       THEN /\ rpc' = "raised"
            /\ UNCHANGED <<next_token, paginate>>
       ELSE /\ paginate' = TRUE
            /\ next_token' = NoToken
            /\ rpc' = "fetch"
    /\ UNCHANGED <<mvars, rvars, cvars, endpoint, slept, chain, mode, response>>

\* the remote throttles the call: the wrapper waits and tries again, and
\* raises when the tries are used up (the waits are those of SpecRetry)
PagedThrottled ==
    /\ rpc = "fetch"
    /\ Len(attempts) < MaxThrottles
    /\ attempts' = Append(attempts, "throttled")
    /\ IF tries + 1 < max_tries(endpoint)
       THEN /\ tries' = tries + 1
            /\ UNCHANGED rpc
       ELSE /\ rpc' = "raised"
            /\ UNCHANGED tries
    /\ UNCHANGED <<mvars, cvars, pvars, endpoint, seconds, hook, slept>>

\* the call returns a page: next_token and paginate are set from it
PagedCall ==
    /\ rpc = "fetch"
    /\ calls' = Log(calls, TokenPassed)
    /\ response' = chain[TokenPassed]
    /\ next_token' = response'.next_token
    /\ paginate' = (next_token' # NoToken)
    /\ kpos' = 0
    /\ tries' = 0
    /\ rpc' = "yield"
    /\ UNCHANGED <<mvars, endpoint, slept, attempts, seconds, hook, headers,
                   sleep_time, window, yielded, chain, mode>>

\* what the source yields for the i-th item of the page of token t
Item(t, i) ==
    [page |-> t, pos |-> i,
     form |-> IF mode = "parent" THEN "pair"
              ELSE IF endpoint = "get_sales_data" THEN "stamped"
              ELSE "record"]

\* yield from: the next item of the page fetched last
PagedYield ==
    /\ rpc = "yield"
    /\ kpos < response.len
    /\ kpos' = kpos + 1
    /\ yielded' = Log(yielded, Item(calls[Len(calls)], kpos + 1))
    /\ UNCHANGED <<mvars, rvars, pvars, endpoint, slept, rpc, headers,
                   sleep_time, window, calls>>

\* the page is exhausted: while paginate
PagedLoop ==
    /\ rpc = "yield"
    /\ kpos = response.len
    /\ rpc' = IF paginate THEN "fetch" ELSE "done"
    /\ UNCHANGED <<mvars, rvars, cvars, pvars, endpoint, slept>>

\* the steps the process takes by itself
PagedStep == PagedStart \/ PagedCall \/ PagedYield \/ PagedLoop

NextPaged == PagedStep \/ PagedThrottled

SpecPaged == InitPaged /\ [][NextPaged]_vars

\* the process goes on while it can, and the remote answers in the end
FairSpecPaged == SpecPaged /\ WF_vars(PagedStep)


(***************************************************************************)
(* Properties.                                                             *)
(***************************************************************************)
\* the instant of the bookmark a state holds for k = <<stream, marketplace>>,
\* the configured start date when it holds none
BookmarkInstant(st, k) ==
    strptime_to_utc(IF st.bookmarks[k] = NoBookmark THEN StartDate
                    ELSE st.bookmarks[k])

IsRecord(i) == sink[i].type = "RECORD"

\* the orders the remote has served for marketplace m: <<page, position>>
OrderKeys(m) ==
    {k \in (1..Len(remote[m])) \X (1..MaxPageLen + 1) :
        k[2] <= Len(remote[m][k[1]].recs)}

OrderDate(m, k) == remote[m][k[1]].recs[k[2]]

\* C1: every record written has a replication-key value at or after the
\* bookmark the pass started with for its (stream, marketplace), the
\* configured start date when there was none.
C1_EmittedAtOrAfterStartBookmark ==
    \A i \in DOMAIN sink :
        IsRecord(i) =>
            strptime_to_utc(sink[i].wm)
                >= BookmarkInstant(input, <<sink[i].stream, sink[i].mkt>>)

\* a pass that started from a stored bookmark wrote a record although the
\* source had returned an older record before it
C1_Witness ==
    \E i \in DOMAIN sink :
        /\ IsRecord(i)
        /\ input.bookmarks[<<sink[i].stream, sink[i].mkt>>] # NoBookmark
        /\ \E k \in OrderKeys(sink[i].mkt) :
              /\ k[1] < sink[i].key[1]
                   \/ (k[1] = sink[i].key[1] /\ k[2] < sink[i].key[2])
              /\ strptime_to_utc(OrderDate(sink[i].mkt, k))
                   < BookmarkInstant(input, <<sink[i].stream, sink[i].mkt>>)

\* C2: the persisted bookmark of every (stream, marketplace) never moves
\* backward, from one state write to the next and from one pass to the next.
C2_BookmarkNeverMovesBackward ==
    [][\A k \in BookmarkKeys :
          BookmarkInstant(Persisted', k) >= BookmarkInstant(Persisted, k)]_vars

\* a second pass moved a stored bookmark forward
C2_Witness ==
    /\ pass = 2
    /\ \E k \in BookmarkKeys :
          /\ input.bookmarks[k] # NoBookmark
          /\ BookmarkInstant(Persisted, k) > BookmarkInstant(input, k)

\* record i of the sink was written for stream s, marketplace m, order k
IsRecordOf(msg, s, m, k) ==
    msg.type = "RECORD" /\ msg.stream = s /\ msg.mkt = m /\ msg.key = k

\* C3: one pass over a marketplace emits every record the source returned
\* with a watermark after the starting bookmark B, in whatever order they
\* came; any other emitted record has a watermark equal to B.
C3_EmitsAllAfterBookmark ==
    (pc = "marketplace" /\ mi > 1) =>
        LET s == tap_stream_id
            m == marketplaces[mi - 1]
            B == BookmarkInstant(input, <<s, m>>)
        IN  /\ \A k \in OrderKeys(m) :
                  strptime_to_utc(OrderDate(m, k)) > B =>
                      \E i \in DOMAIN sink : IsRecordOf(sink[i], s, m, k)
            /\ \A i \in DOMAIN sink :
                  (IsRecord(i) /\ sink[i].stream = s /\ sink[i].mkt = m) =>
                      strptime_to_utc(sink[i].wm) >= B

\* C4: when a pass was aborted and the tap is run again from the last state
\* written, against the same source, every source record at or after the
\* first run's starting bookmark is written by one of the two runs.
C4_NoRecordLostAcrossAbort ==
    (pass = 2 /\ input.currently_syncing # None /\ pc = "marketplace" /\ mi > 1) =>
        LET s == tap_stream_id
            m == marketplaces[mi - 1]
        IN  \A k \in OrderKeys(m) :
                strptime_to_utc(OrderDate(m, k))
                        >= BookmarkInstant(EmptyState, <<s, m>>) =>
                    \/ \E i \in DOMAIN sink : IsRecordOf(sink[i], s, m, k)
                    \/ \E r \in earlier : IsRecordOf(r, s, m, k)

\* C5: a record whose watermark equals the current bookmark (the loaded one
\* or that of the last emitted record) is written when it is pulled.
C5_InclusiveLowerBound ==
    [][(/\ AtRecord
        /\ gen'.pos = gen.pos + 1
        /\ strptime_to_utc(CurrentRecs[gen.pos + 1])
              = strptime_to_utc(max_record_value))
       => /\ Len(sink') = Len(sink) + 1
          /\ IsRecordOf(sink'[Len(sink')], tap_stream_id, marketplace,
                        <<gen.page, gen.pos + 1>>)]_vars

\* a pass that started at a stored bookmark wrote two records with the
\* watermark of that bookmark
C5_Witness ==
    \E i, j \in DOMAIN sink :
        /\ i < j
        /\ IsRecord(i) /\ IsRecord(j)
        /\ sink[i].stream = sink[j].stream /\ sink[i].mkt = sink[j].mkt
        /\ input.bookmarks[<<sink[i].stream, sink[i].mkt>>] # NoBookmark
        /\ strptime_to_utc(sink[i].wm)
              = BookmarkInstant(input, <<sink[i].stream, sink[i].mkt>>)
        /\ strptime_to_utc(sink[j].wm) = strptime_to_utc(sink[i].wm)

\* C6: each written record is followed at once by a state whose bookmark for
\* the record's (stream, marketplace) is the record's watermark; no record is
\* pulled in between.
C6_CheckpointPerRecord ==
    \A i \in DOMAIN sink :
        IsRecord(i) =>
            /\ i = Len(sink) => pc \in {"checkpoint", "killed"}
            /\ i < Len(sink) =>
                  /\ sink[i + 1].type = "STATE"
                  /\ sink[i + 1].value.bookmarks[<<sink[i].stream, sink[i].mkt>>]
                        # NoBookmark
                  /\ BookmarkInstant(sink[i + 1].value, <<sink[i].stream, sink[i].mkt>>)
                        = strptime_to_utc(sink[i].wm)

\* two records of one marketplace were written, each with its own state
C6_Witness ==
    \E i \in DOMAIN sink :
        /\ i + 3 <= Len(sink)
        /\ IsRecord(i) /\ IsRecord(i + 2)
        /\ sink[i].mkt = sink[i + 2].mkt
        /\ strptime_to_utc(sink[i].wm) < strptime_to_utc(sink[i + 2].wm)

\* C7: orders is synced before every selected stream it is the parent of.
C7_ParentBeforeDependents ==
    \A i, j \in DOMAIN order :
        (order[i] = "orders" /\ parent(order[j]) = "orders") => i < j

\* the streams of the schema messages, in the order written
SchemaStreams ==
    LET RECURSIVE Of(_)
        Of(i) == IF i > Len(sink) THEN <<>>
                 ELSE IF sink[i].type = "SCHEMA"
                      THEN <<sink[i].stream>> \o Of(i + 1)
                      ELSE Of(i + 1)
    IN  Of(1)

\* C8: a state naming S is written right before S's schema and so before
\* every record of S; a state is written when S's sync has returned; when
\* the pass is done every stream was started in execution order and the last
\* state written has the marker cleared.
C8_CurrentlySyncingProtocol ==
    /\ \A i \in DOMAIN sink :
          sink[i].type = "SCHEMA" =>
              /\ i > 1
              /\ sink[i - 1].type = "STATE"
              /\ sink[i - 1].value.currently_syncing = sink[i].stream
    /\ \A j \in DOMAIN sink :
          IsRecord(j) =>
              \E i \in 1..(j - 1) :
                  /\ sink[i].type = "STATE"
                  /\ sink[i].value.currently_syncing = sink[j].stream
    /\ (pc = "loop" /\ si > 1) =>
          /\ sink[Len(sink)].type = "STATE"
          /\ sink[Len(sink)].value.currently_syncing = order[si - 1]
    /\ pc = "done" =>
          /\ sink[Len(sink)].type = "STATE"
          /\ sink[Len(sink)].value.currently_syncing = None
          /\ SchemaStreams = order

\* a pass over two streams is done and wrote a record
C8_Witness ==
    /\ pc = "done"
    /\ Len(order) = 2
    /\ \E i \in DOMAIN sink : IsRecord(i)

\* C9: every record in the sink comes after a schema message of its stream,
\* written in the same pass.
C9_SchemaBeforeRecords ==
    \A j \in DOMAIN sink :
        IsRecord(j) =>
            \E i \in 1..(j - 1) :
                sink[i].type = "SCHEMA" /\ sink[i].stream = sink[j].stream

\* the second stream of a pass wrote a record
C9_Witness ==
    \E j \in DOMAIN sink :
        IsRecord(j) /\ Len(order) = 2 /\ si = 2 /\ sink[j].stream = order[2]

\* C10: the step in which a stream's sync raises writes nothing and leaves
\* as last state one whose marker names that stream; nothing is written
\* afterwards in that pass.
C10_NoSinkOperationAfterError ==
    [][/\ pc' = "raised" =>
             /\ sink' = sink
             /\ LastState(sink', input').currently_syncing = order'[si']
             /\ \A i \in DOMAIN sink :
                   sink[i].type = "STATE" =>
                       \A k \in BookmarkKeys :
                           /\ sink[i].value.bookmarks[k] # NoBookmark
                                 => Persisted'.bookmarks[k] # NoBookmark
                           /\ BookmarkInstant(Persisted', k)
                                 >= BookmarkInstant(sink[i].value, k)
       /\ (pc = "raised" /\ pass' = pass) => (pc' = "raised" /\ sink' = sink)]_vars

\* the second stream of a pass raised after bookmarks had been written
C10_Witness ==
    /\ pc = "raised"
    /\ si = 2
    /\ \E k \in BookmarkKeys : Persisted.bookmarks[k] # NoBookmark
    /\ \E i \in DOMAIN sink : IsRecord(i)

(***************************************************************************)
(* The retry wrapper (SpecRetry).                                          *)
(***************************************************************************)
AllThrottled ==
    /\ attempts # <<>>
    /\ \A i \in DOMAIN attempts : attempts[i] = "throttled"

\* the wrapped call has ended, by returning or by raising
CallEnded == rpc \in {"returned", "resumed", "raised", "aborted"}

\* C11: a wrapped call never makes more than 5 remote calls (3 for the sales
\* call); when every one of them is throttled it ends after exactly that
\* many, by raising to its caller, which is aborted and never resumed.
C11_RetryExhaustion ==
    LET limit == IF endpoint = "get_sales_data" THEN 3 ELSE 5
    IN  /\ Len(attempts) <= limit
        /\ AllThrottled /\ Len(attempts) = limit => rpc \in {"raised", "aborted"}
        /\ AllThrottled /\ CallEnded =>
              /\ Len(attempts) = limit
              /\ rpc \in {"raised", "aborted"}

C11_Witness ==
    /\ endpoint = "get_sales_data"
    /\ attempts = <<"throttled", "throttled", "throttled">>
    /\ rpc = "aborted"

\* the hook has fired once for every sleep made or about to be made
HookBeforeSleep ==
    /\ Len(hook) = Len(slept) + (IF rpc = "sleep" THEN 1 ELSE 0)
    /\ slept = SubSeq(hook, 1, Len(slept))

\* the call returned on try k + 1 after k throttled tries: k + 1 remote
\* calls, k hook calls, k sleeps
ReturnedAfter(k) ==
    /\ Len(attempts) = k + 1
    /\ attempts[k + 1] = "ok"
    /\ \A i \in 1..k : attempts[i] = "throttled"
    /\ k < max_tries(endpoint)
    /\ Len(hook) = k
    /\ slept = hook

\* C12 as stated: a call that returns after k throttled tries made k + 1
\* remote calls and the hook fired k times, once before each sleep, with
\* strictly increasing waits.
C12_WaitsStrictlyIncrease ==
    /\ HookBeforeSleep
    /\ rpc \in {"returned", "resumed"} =>
          /\ ReturnedAfter(tries - 1)
          /\ \A i, j \in DOMAIN hook : i < j => hook[i] < hook[j]

\* C12, amended: a call that returns after k throttled tries made k + 1
\* remote calls and the hook fired k times, once before each sleep; the i-th
\* wait lies between 0 and the i-th value of the exponential series
\* factor * base^(i-1), and these upper limits increase strictly.
C12_RetrySuccess ==
    /\ HookBeforeSleep
    /\ rpc \in {"returned", "resumed"} =>
          /\ ReturnedAfter(tries - 1)
          /\ \A i \in DOMAIN hook :
                /\ hook[i] \in 0..expo(endpoint, i - 1)
                /\ i > 1 => expo(endpoint, i - 2) < expo(endpoint, i - 1)

C12_Witness ==
    /\ endpoint = "get_sales_data"
    /\ attempts = <<"throttled", "throttled", "ok">>
    /\ Len(hook) = 2
    /\ rpc = "resumed"

\* C13: a remote call that raises an error other than throttling is the last
\* one: no hook call and no sleep follows it, and the error reaches the
\* caller, which is aborted.  When it is the first call, it is the only one
\* and the hook and the sleep never happen.
C13_OtherErrorNotRetried ==
    \A i \in DOMAIN attempts :
        attempts[i] = "error" =>
            /\ i = Len(attempts)
            /\ Len(hook) = i - 1
            /\ Len(slept) = i - 1
            /\ rpc \in {"raised", "aborted"}

C13_Witness ==
    /\ attempts = <<"error">>
    /\ hook = <<>>
    /\ slept = <<>>
    /\ rpc = "aborted"

(***************************************************************************)
(* The rate limiter (SpecSleep).                                           *)
(***************************************************************************)
\* C17: the sleep time is 1 / rate, the rate being the header's number, 100
\* when the header is absent or no number, 0.1 when the number is zero or
\* negative; so it is 10 for '0', 0.01 for no header and for text, and it is
\* strictly positive for every header.
C17_SleepDuration ==
    rpc = "sleep_time" =>
        LET v == float(headers)
            rate == IF headers.kind = "absent" \/ v.raised THEN 1000
                    ELSE IF v.val <= 0 THEN 1
                    ELSE v.val
        IN  /\ sleep_time[1] * rate = 10 * sleep_time[2]
            /\ sleep_time[1] * sleep_time[2] > 0
            /\ headers = Numeral(FALSE, 0, 0) => sleep_time = <<10, 1>>
            /\ headers.kind # "numeral" => sleep_time = <<10, 1000>>

(***************************************************************************)
(* The child record sources (SpecChild).                                   *)
(***************************************************************************)
\* C14: the calls that returned are those for the parent keys, one per key
\* and in parent order; the source stops only when a remote call fails or
\* the parent window is exhausted, and then every key has had its call; for
\* every call that returned the derived record was yielded, stamped with
\* OrderLastUpdateDate equal to the date of the parent tuple.
C14_ChildCallsAndStamps ==
    /\ calls = [i \in 1..Len(calls) |-> window[i][1]]
    /\ rpc \in {"next", "done", "raised_remote"}
    /\ rpc = "done" => Len(calls) = Len(window)
    /\ endpoint # "get_order_items" =>
          yielded = [i \in 1..Len(calls) |-> Stamped(window[i][1], window[i][2])]

(***************************************************************************)
(* FullTableStream.sync (SpecFullTable).                                   *)
(***************************************************************************)
\* keys of the records of page p of marketplace m, in the order served
KeysOfPage(m, p) == [i \in 1..Len(remote[m][p].recs) |-> <<p, i>>]

RECURSIVE KeysUpTo(_, _)
\* keys of the records of the first n pages of marketplace m
KeysUpTo(m, n) ==
    IF n = 0 THEN <<>> ELSE KeysUpTo(m, n - 1) \o KeysOfPage(m, n)

\* keys of the records the source has yielded for marketplace m so far
YieldedKeys(m) ==
    IF pc = "ft_records" /\ marketplace = m
    THEN IF gen.page = 0 THEN <<>>
         ELSE KeysUpTo(m, gen.page - 1)
              \o SubSeq(KeysOfPage(m, gen.page), 1, gen.pos)
    ELSE KeysUpTo(m, Len(remote[m]))

RECURSIVE WrittenKeys(_, _)
\* keys of the records in msgs written for marketplace m, in order
WrittenKeys(msgs, m) ==
    IF msgs = <<>> THEN <<>>
    ELSE IF Head(msgs).type = "RECORD" /\ Head(msgs).mkt = m
         THEN <<Head(msgs).key>> \o WrittenKeys(Tail(msgs), m)
         ELSE WrittenKeys(Tail(msgs), m)

\* C15: while FullTableStream.sync runs and when it has returned, the records
\* written for each marketplace are the records its source has yielded, each
\* once and in source order, whatever their replication-key values: as many
\* written as yielded.
C15_FullTableEmitsAll ==
    pc \in {"ft_marketplace", "ft_records", "ft_done"} =>
        \A m \in Marketplaces :
            /\ WrittenKeys(sink, m) = YieldedKeys(m)
            /\ Len(WrittenKeys(sink, m)) = Len(YieldedKeys(m))

\* a full-table sync has returned after writing two records of one
\* marketplace, the second older than the first
C15_Witness ==
    /\ pc = "ft_done"
    /\ \E i, j \in DOMAIN sink :
          /\ i < j
          /\ sink[i].type = "RECORD" /\ sink[j].type = "RECORD"
          /\ sink[i].mkt = sink[j].mkt
          /\ strptime_to_utc(sink[j].wm) < strptime_to_utc(sink[i].wm)

\* C16: FullTableStream.sync writes a state only when it returns, once, as
\* its last message and after every record; the state it holds and returns
\* always has the bookmarks of the state it received.
C16_FullTableStateOnce ==
    /\ \A i \in DOMAIN sink :
          sink[i].type = "STATE" => pc = "ft_done" /\ i = Len(sink)
    /\ pc = "ft_done" =>
          /\ sink[Len(sink)].type = "STATE"
          /\ sink[Len(sink)].value.bookmarks = input.bookmarks
    /\ state.bookmarks = input.bookmarks

\* a sync over two marketplaces has returned with records written and with
\* the bookmark it received
C16_Witness ==
    /\ pc = "ft_done"
    /\ Len(marketplaces) = 2
    /\ \E i \in DOMAIN sink : sink[i].type = "RECORD" /\ sink[i].mkt = "GB"
    /\ \E i \in DOMAIN sink : sink[i].type = "RECORD" /\ sink[i].mkt = "US"
    /\ input # EmptyState

(***************************************************************************)
(* Stream setup (SpecSetup).                                               *)
(***************************************************************************)
\* the configuration the selected stream reads is invalid: a marketplace code
\* that is no member, in any position, or, for sales, a granularity that is
\* no member
ConfigError ==
    \/ \E i \in DOMAIN config.marketplaces :
          config.marketplaces[i] \notin Marketplaces
    \/ /\ catalog = <<"sales">>
       /\ config.sales_data_granularity \notin Granularity \cup {"absent"}

C19_MissingFieldNeverAborts ==
    [][(/\ pc = "records"
        /\ tap_stream_id = "orders"
        /\ gen.pos < Len(CurrentRecs)
        /\ CurrentRecs[gen.pos + 1] = Missing)
       => pc' \in {"records", "checkpoint"}]_vars

(***************************************************************************)
(* Order of the records written (Spec).                                    *)
(***************************************************************************)
\* key a comes before key b in the order the source returns the records
Before(a, b) == a[1] < b[1] \/ (a[1] = b[1] /\ a[2] < b[2])

\* C20: of two records written for the same stream and marketplace, the one
\* written first is the one the source returned first: what is written is a
\* subsequence of what the source returned.
C20_WrittenInSourceOrder ==
    \A i, j \in DOMAIN sink :
        (/\ i < j
         /\ IsRecord(i) /\ IsRecord(j)
         /\ sink[i].stream = sink[j].stream
         /\ sink[i].mkt = sink[j].mkt)
        => Before(sink[i].key, sink[j].key)

\* two records of one page were written for one stream and marketplace
C20_Witness ==
    \E i, j \in DOMAIN sink :
        /\ i < j
        /\ IsRecord(i) /\ IsRecord(j)
        /\ sink[i].stream = sink[j].stream
        /\ sink[i].mkt = sink[j].mkt
        /\ sink[i].key[1] = sink[j].key[1]

(***************************************************************************)
(* Bookmarks per marketplace (Spec).                                       *)
(***************************************************************************)
\* the process is inside the record loop of a marketplace
InMarketplace == pc \in {"records", "checkpoint"}

\* a bookmark entry as a sequence: empty when absent, else its one value
Entry(b) == IF b = NoBookmark THEN <<>> ELSE <<b>>

\* the bookmark entries of a state
Entries(st) == [k \in BookmarkKeys |-> Entry(st.bookmarks[k])]

\* C21: a step taken inside the record loop of marketplace m of stream S that
\* does not end the process changes no bookmark but that of (S, m); and
\* whenever the next record is about to be pulled the filter's threshold is
\* the bookmark the state holds for (S, m), the start date when it holds
\* none: no other marketplace's bookmark enters it.
C21_BookmarksPerMarketplace ==
    [][/\ (InMarketplace /\ pc' \notin {"raised", "killed", "lookup_error"}) =>
             \A k \in BookmarkKeys :
                 k # <<tap_stream_id, marketplace>> =>
                     Entries(state')[k] = Entries(state)[k]
       /\ pc' = "records" =>
             max_record_value' =
                 get_bookmark(state', tap_stream_id', marketplace', StartDate)
      ]_<<pc, gen, Entries(state)>>

\* a record of US was written although the state holds, for the same stream, a
\* bookmark of GB that is later than the record
C21_Witness ==
    \E i \in DOMAIN sink :
        /\ IsRecord(i)
        /\ sink[i].mkt = "US"
        /\ state.bookmarks[<<sink[i].stream, "GB">>] # NoBookmark
        /\ strptime_to_utc(sink[i].wm)
              < strptime_to_utc(state.bookmarks[<<sink[i].stream, "GB">>])

(***************************************************************************)
(* The end date of the window (Spec).                                      *)
(***************************************************************************)
\* C22: a pass whose configuration has no end_date does not fail when the
\* sync of a stream turns to a marketplace: the step that loads the bookmark
\* and reads the end date never raises.
C22_EndDateOptional ==
    [][(pc = "marketplace" /\ config.end_date = "absent") => pc' # "raised"]_pc

(***************************************************************************)
(* The paged record sources (SpecPaged, FairSpecPaged).                    *)
(***************************************************************************)
\* the sources whose loop hands next_token to the remote call
TokenSources == {"get_orders", "get_vendor_purchase_orders"}

\* the first n items of the page of token t, as the source yields them
ItemsOf(t, n) == [i \in 1..n |-> Item(t, i)]

\* the items of the pages fetched by the calls i.., the last page up to kpos
RECURSIVE ItemsFrom(_)
ItemsFrom(i) ==
    IF i > Len(calls) THEN <<>>
    ELSE ItemsOf(calls[i], IF i < Len(calls) THEN chain[calls[i]].len ELSE kpos)
            \o ItemsFrom(i + 1)

Exhausted ==
    /\ rpc = "raised"
    /\ attempts # <<>>
    /\ tries + 1 = max_tries(endpoint)

\* C24: against a finite chain of pages and a remote that throttles finitely
\* often, get_records of every paged source is eventually done, unless the
\* throttling used up the tries of one call.
C24_Termination == <>(rpc = "done" \/ Exhausted)

\* C25: when a paged source has made two calls that returned, and the remote
\* throttled none of its calls, the source has slept in between.
C25_SleepBetweenCalls ==
    (Len(calls) >= 2 /\ attempts = <<>>) => slept # <<>>

(***************************************************************************)
(* The parent of a child stream (Spec).                                    *)
(***************************************************************************)
\* the sync of a stream that has a parent is under way
ChildSyncing ==
    /\ pc \in {"sync", "marketplace", "records", "checkpoint"}
    /\ parent(tap_stream_id) # None

\* the messages a step writes
Written == SubSeq(sink', Len(sink) + 1, Len(sink'))

\* C26: no step of the sync of a child stream writes a record or a schema
\* under the parent's stream id, and none creates or changes a bookmark
\* entry of the parent stream: the parent only feeds the child its pairs.
C26_ParentNotCheckpointed ==
    [][(ChildSyncing /\ ChildSyncing') =>
          /\ \A i \in DOMAIN Written :
                 Written[i].type \in {"RECORD", "SCHEMA"} =>
                     Written[i].stream # parent(tap_stream_id)
          /\ \A k \in BookmarkKeys :
                 k[1] = parent(tap_stream_id) =>
                     Entries(state')[k] = Entries(state)[k]
      ]_<<pc, gen, Len(sink), Entries(state)>>

\* a record of a child stream was written and checkpointed in a pass that
\* wrote nothing under the parent's id and holds no bookmark of the parent
C26_Witness ==
    /\ \E i \in DOMAIN sink :
          /\ IsRecord(i)
          /\ sink[i].stream = "order_buyer_info"
          /\ state.bookmarks[<<"order_buyer_info", sink[i].mkt>>] # NoBookmark
    /\ \A i \in DOMAIN sink : sink[i].stream # "orders"
    /\ \A k \in BookmarkKeys : k[1] = "orders" => state.bookmarks[k] = NoBookmark

(***************************************************************************)
(* The bookmark at the end of a marketplace (Spec).                        *)
(***************************************************************************)
\* the records of this pass written for stream s and marketplace m
EmittedFor(s, m) ==
    {i \in DOMAIN sink : IsRecord(i) /\ sink[i].stream = s /\ sink[i].mkt = m}

\* the greatest instant among the watermarks of the records in I
GreatestInstant(I) ==
    CHOOSE x \in {strptime_to_utc(sink[i].wm) : i \in I} :
        \A i \in I : strptime_to_utc(sink[i].wm) <= x

\* C27: the step that ends a marketplace of an incremental sync leaves a
\* bookmark for (stream, marketplace) in the state and writes that state as
\* its one message; the bookmark is the greatest watermark among the records
\* this pass emitted for the marketplace, or, when it emitted none, the
\* bookmark the pass started with, the configured start date when it
\* started with none.
C27_FinalBookmark ==
    [][(pc = "records" /\ pc' = "marketplace") =>
          LET s == tap_stream_id
              m == marketplace
              b == state'.bookmarks[<<s, m>>]
          IN  /\ b # NoBookmark
              /\ sink' = Append(sink, StateMsg(state'))
              /\ IF EmittedFor(s, m) = {}
                 THEN b = get_bookmark(input, s, m, StartDate)
                 ELSE b = isoformat(GreatestInstant(EmittedFor(s, m)))
      ]_<<pc, gen, Len(sink), Entries(state)>>

\* a marketplace ended after two records with different watermarks were
\* emitted for it, and another ended with none emitted and none persisted
C27_Witness ==
    /\ pc = "marketplace"
    /\ mi = 3
    /\ input.bookmarks[<<tap_stream_id, "GB">>] = NoBookmark
    /\ EmittedFor(tap_stream_id, "GB") = {}
    /\ \E i, j \in EmittedFor(tap_stream_id, "US") :
          strptime_to_utc(sink[i].wm) < strptime_to_utc(sink[j].wm)

(***************************************************************************)
(* The stream class of a selected stream (Spec).                           *)
(***************************************************************************)
\* C28: the sync of a pass never fails to find the class of a selected
\* stream whose id one of the two class tables knows.
C28_NoLookupError ==
    (\A i \in DOMAIN catalog : catalog[i] \in STREAMS \cup FULL_TABLE_STREAMS)
        => pc # "lookup_error"

(***************************************************************************)
(* The order of the emitted watermarks (Spec).                             *)
(***************************************************************************)
\* messages i and j are records of one stream and marketplace
SameSeries(i, j) ==
    /\ IsRecord(i) /\ IsRecord(j)
    /\ sink[i].stream = sink[j].stream
    /\ sink[i].mkt = sink[j].mkt

\* C29: of two records a pass wrote for one stream and marketplace, the one
\* written later, and likewise the one from the later source position, has
\* a watermark at or after the other's: a source record below the watermark
\* of a record emitted before it is not emitted.
C29_EmittedWatermarksNonDecreasing ==
    \A i, j \in DOMAIN sink :
        (SameSeries(i, j) /\ (i < j \/ Before(sink[i].key, sink[j].key)))
            => strptime_to_utc(sink[i].wm) <= strptime_to_utc(sink[j].wm)

\* the orders source returned a record at instant 2 and then one at instant
\* 1, both after the starting bookmark (the start date, instant 0); the
\* first was emitted, the second was read and not emitted
C29_Witness ==
    /\ pc = "records"
    /\ tap_stream_id = "orders"
    /\ input.bookmarks[<<"orders", marketplace>>] = NoBookmark
    /\ gen.page = 1
    /\ gen.pos = 2
    /\ CurrentRecs = <<<<2, 0>>, <<2, 1>>>>
    /\ \E i \in DOMAIN sink :
          /\ IsRecord(i)
          /\ sink[i].stream = "orders" /\ sink[i].mkt = marketplace
          /\ sink[i].key = <<1, 1>>
    /\ \A i \in DOMAIN sink :
          (IsRecord(i) /\ sink[i].stream = "orders" /\ sink[i].mkt = marketplace)
              => sink[i].key # <<1, 2>>

====
